---- MODULE Spec2Model ----
(***************************************************************************)
(* The Wayland event loop of src/native/linux_wayland.rs: the blocking     *)
(* wait of WaylandPayload::block_on_new_event, the keyboard listener       *)
(* callbacks, the key-repeat timer of KeyboardContext and the drain, quit  *)
(* and frame steps of run().                                               *)
(***************************************************************************)
EXTENDS Integers, Sequences, FiniteSets, TLC

\* Bounds of the model.
MaxBatch == 2   \* protocol messages dispatched in one block_on_new_event
MaxTicks == 2   \* timer expirations that can coalesce before they are read
MaxPings == 2   \* pings the shell sends in one run

\* evdev scancodes of the modelled keyboard: 42 is KEY_LEFTSHIFT, 30 is KEY_A.
Keys == {42, 30}
None == 0

VARIABLES
  pc,                \* position of run()'s thread
  blocking,          \* conf.platform.blocking_event_loop
  closed,            \* WaylandPayload.closed
  update_requested,  \* WaylandPayload.update_requested
  keyboard_context,  \* WaylandPayload.keyboard_context (without the fd)
  timerfd,           \* the kernel timer behind keyboard_context.timerfd
  EVENTS,            \* static mut EVENTS
  keymods,           \* run()'s local keymods
  quit_requested,    \* NativeDisplayData.quit_requested
  quit_ordered,      \* NativeDisplayData.quit_ordered
  rx,                \* the inbound request channel
  batch,             \* protocol messages dispatched so far in this wake
  revents,           \* fds[..].revents as poll left them
  comp,              \* the compositor's side of the keyboard: focus, keys held
  calls,             \* the handler calls made by the last step
  read_intent,       \* read intents this thread holds on the display
  displayOps,        \* the read-intent calls made by the last step
  lockOps,           \* the last step's lock, unlock and handler calls, in order
  sends,             \* the messages the compositor of this run may send
  outbound,          \* requests queued by wl_proxy_marshal, not yet written
  unread,            \* messages have arrived and no read has taken them
  \* History of the run, kept for the properties only
  pushLog,           \* the events pushed since the last drain, in push order
  delivLog,          \* the events the drain has handed to the handler
  upSeen,            \* keys whose last delivered transition is key_up_event
  repeatBlocked,     \* a focus-leave was dispatched, no later press processed
  leaveDrained,      \* KeyboardLeave was drained, no key event since
  pressedAtZero,     \* keys pressed since a repeat-info with rate 0
  lastDown,          \* the key of the last KeyboardContext::key_down
  asked,             \* quit_requested_event was called in this iteration
  redrawDue,         \* a redraw was requested and no frame was drawn since
  pingLog,           \* the serials of the pings dispatched
  axisIn,            \* (axis, value) of the wl_pointer axis message
  axisDone,          \* pointer_handle_axis has run on axisIn
  sentBlocked,       \* the last request of another thread was sent during poll
  global,            \* (interface, version) of the global under test
  bindVersion,       \* the version registry_add_object bound it at, or 0
  caps,              \* the capabilities of the last wl_seat notification
  pointers,          \* wl_pointer objects that carry POINTER_LISTENER
  keyboards,         \* wl_keyboard objects that carry KEYBOARD_LISTENER
  \* The window, as xdg_toplevel_handle_configure sees it
  decorations,       \* WaylandPayload.decorations and the size it was told
  event_handler,     \* WaylandPayload.event_handler is Some
  egl_window,        \* the size of WaylandPayload.egl_window
  screen_width,      \* NativeDisplayData.screen_width
  screen_height,     \* NativeDisplayData.screen_height
  configured,        \* the arguments of the last toplevel configure
  \* The startup of run()
  step,              \* position of run() before the loop
  advertised,        \* the globals the compositor announced
  bound,             \* the handles of WaylandPayload that are not null
  nullUsed,          \* null handles that a request or a listener was given
  wayland_use_fallback_decorations   \* conf.platform

hist == <<pushLog, delivLog, upSeen, repeatBlocked, leaveDrained,
          pressedAtZero, lastDown, asked, redrawDue, pingLog>>

window == <<decorations, event_handler, egl_window, screen_width,
            screen_height, configured>>

startup == <<step, advertised, bound, nullUsed,
             wayland_use_fallback_decorations>>

\* what the event loop of run() leaves alone
\* the axis message under test and whether its listener has run
pointer == <<axisIn, axisDone>>

\* the threads that send requests to the loop
threads == <<sentBlocked>>

\* the seat and its input objects
seat == <<caps, pointers, keyboards>>

\* the registry listener on one global
registry == <<global, bindVersion>>

aux == <<window, startup, pointer, threads, seat, registry>>

prog == <<pc, blocking, closed, update_requested, keyboard_context, timerfd,
          EVENTS, keymods, quit_requested, quit_ordered, rx, batch, revents,
          comp, calls, sends, outbound, unread, read_intent, displayOps,
          lockOps>>

\* the shell's side of the connection
shell == <<sends, outbound, unread>>

\* the thread as a reader of the display
reader == <<read_intent, displayOps>>

\* the thread as a user of the display-data lock
locks == <<lockOps>>

----------------------------------------------------------------------------
\* Data

NoMods == [shift |-> FALSE, ctrl |-> FALSE, alt |-> FALSE, logo |-> FALSE]

\* enum RepeatInfo; delay in milliseconds, gap in microseconds
NoRepeat == [kind |-> "NoRepeat", delay |-> 0, gap |-> 0]
Repeat(delay, gap) == [kind |-> "Repeat", delay |-> delay, gap |-> gap]

\* impl Default for RepeatInfo
RepeatInfoDefault == Repeat(200, 40000)

\* enum WaylandEvent
KeyboardLeave == [type |-> "KeyboardLeave", key |-> None, state |-> "None"]
KeyboardKey(key, state) == [type |-> "KeyboardKey", key |-> key, state |-> state]
PointerButton(pressed) ==
  [type |-> "PointerButton", key |-> None,
   state |-> IF pressed THEN "Pressed" ELSE "Released"]

PointerMotion == [type |-> "PointerMotion", key |-> None, state |-> "None"]
FilesDropped == [type |-> "FilesDropped", key |-> None, state |-> "None"]

\* impl From<WaylandKeyState> for bool
StateIntoBool(state) == state \in {"Pressed", "Repeat"}

\* keycodes::translate of the key's keysym, for the two keys of the model
Keycode(key) == IF key = 42 THEN "LeftShift" ELSE "A"

\* xkb_keymap_key_repeats: modifier keys do not repeat
should_repeat(key) == key # 42

\* keycodes::keysym_to_unicode: a modifier has no character
HasChar(key) == key # 42

Call(fn, key, repeat, mods) ==
  [fn |-> fn, key |-> key, repeat |-> repeat, mods |-> mods]

----------------------------------------------------------------------------
\* The repeat timer

\* timerfd_settime: a zero it_value disarms, any call resets the
\* expiration counter
timerfd_settime(it_value, it_interval) ==
  [armed |-> it_value # 0, periodic |-> it_interval # 0, ticks |-> 0]

\* KeyboardContext::key_down, result: the context and the timer
key_down(kc, tfd, key) ==
  IF kc.repeat_info.kind = "Repeat"
  THEN [kc |-> [kc EXCEPT !.repeated_key = key],
        tfd |-> timerfd_settime(kc.repeat_info.delay, kc.repeat_info.gap)]
  ELSE [kc |-> [kc EXCEPT !.repeated_key = None],
        tfd |-> timerfd_settime(0, 0)]

\* KeyboardContext::key_up
key_up(kc, tfd, key) ==
  IF kc.repeated_key = key
  THEN [kc |-> [kc EXCEPT !.repeated_key = None],
        tfd |-> timerfd_settime(0, 0)]
  ELSE [kc |-> kc, tfd |-> tfd]

\* The timer expires once more: the kernel counts it; a timer without an
\* interval stops after its first expiration.  Nothing looks at the counter
\* before poll, so an expiration while the thread is elsewhere is taken when
\* the thread is in poll.
TimerExpire ==
  /\ timerfd.armed
  /\ timerfd.ticks < MaxTicks
  /\ pc \in {"poll", "timer"} \/ (pc = "dispatch" /\ revents.wl)
  /\ timerfd' = [timerfd EXCEPT !.ticks = @ + 1, !.armed = timerfd.periodic]
  /\ calls' = <<>>
  /\ UNCHANGED <<pc, blocking, closed, update_requested, keyboard_context,
                 EVENTS, keymods, quit_requested, quit_ordered, rx, batch,
                 revents, comp>>
  /\ UNCHANGED hist
  /\ UNCHANGED aux
  /\ UNCHANGED shell
  /\ displayOps' = <<>>
  /\ UNCHANGED read_intent
  /\ lockOps' = <<>>

----------------------------------------------------------------------------
\* Listener callbacks.  Each takes the session state it touches and gives
\* the state it leaves: kc (keyboard_context), tfd (the timer), q (EVENTS),
\* cl (closed).

Session(kc, tfd, q, cl) == [kc |-> kc, tfd |-> tfd, q |-> q, cl |-> cl]

\* keyboard_handle_enter
keyboard_handle_enter(s, serial) ==
  [s EXCEPT !.kc = [s.kc EXCEPT !.enter_serial = serial]]

\* keyboard_handle_leave: the tracked key is cleared, the timer is not touched
keyboard_handle_leave(s) ==
  [s EXCEPT !.kc = [s.kc EXCEPT !.repeated_key = None, !.enter_serial = None],
            !.q = Append(s.q, KeyboardLeave)]

\* keyboard_handle_key: state is the wire value of wl_keyboard_key_state
keyboard_handle_key(s, key, state) ==
  IF state \notin {0, 1, 2}
  THEN s
  ELSE LET st == CASE state = 0 -> "Released"
                   [] state = 1 -> "Pressed"
                   [] OTHER -> "Repeat"
           up == IF st = "Released" THEN key_up(s.kc, s.tfd, key)
                 ELSE [kc |-> s.kc, tfd |-> s.tfd]
       IN [s EXCEPT !.kc = up.kc, !.tfd = up.tfd,
                    !.q = Append(s.q, KeyboardKey(key, st))]

\* `rate as u64` of a negative i32 is above 2^63, so the quotient is 0
GapMicros(rate) == IF rate < 0 THEN 0 ELSE 1000000 \div rate

\* `delay as u64` of a negative i32 is a huge number of milliseconds
DelayMillis(delay) == IF delay < 0 THEN 2147483647 ELSE delay

\* keyboard_handle_repeat_info
keyboard_handle_repeat_info(s, rate, delay) ==
  [s EXCEPT !.kc = [s.kc EXCEPT !.repeat_info =
                      IF rate = 0 THEN NoRepeat
                      ELSE Repeat(DelayMillis(delay), GapMicros(rate))]]

\* pointer_handle_button: BTN_LEFT, BTN_RIGHT and BTN_MIDDLE are known, the
\* event carries state == 1
pointer_handle_button(s, button, state) ==
  [s EXCEPT !.q = Append(s.q, PointerButton(state = 1))]

\* a pong request with the serial of the ping
Pong(serial) == [request |-> "pong", serial |-> serial]

\* xdg_wm_base_handle_ping: wl_request!(.., pong, serial) queues the request
xdg_wm_base_handle_ping(out, serial) == Append(out, Pong(serial))

\* xdg_toplevel_handle_close
xdg_toplevel_handle_close(s) == [s EXCEPT !.cl = TRUE]

\* A protocol message on the wire: msg names the event, a and b are its
\* arguments.
Msg(msg, a, b) == [msg |-> msg, a |-> a, b |-> b]

\* wl_display_dispatch_pending calls the listener of one message
Listener(s, m) ==
  CASE m.msg = "enter" -> keyboard_handle_enter(s, m.a)
    [] m.msg = "leave" -> keyboard_handle_leave(s)
    [] m.msg = "key" -> keyboard_handle_key(s, m.a, m.b)
    [] m.msg = "repeat_info" -> keyboard_handle_repeat_info(s, m.a, m.b)
    [] m.msg = "button" -> pointer_handle_button(s, m.a, m.b)
    [] m.msg = "close" -> xdg_toplevel_handle_close(s)
    [] OTHER -> s

----------------------------------------------------------------------------
\* The compositor.  It sends key events only to the focused client, a press
\* only for a key that is up and a release only for a key that is down; keys
\* held when the focus leaves get no release, and keys still held when the
\* focus comes back are released later.

\* serials of the pings of the shell
Serials == {7, 8}

\* (rate, delay) pairs the compositor advertises
RepeatInfoArgs == {<<0, 600>>, <<25, 600>>}

\* (rate, delay) pairs at the edges: no delay, a rate above 1,000,000,
\* a negative rate
ExtremeRepeatInfoArgs == {<<25, 0>>, <<2000000, 600>>, <<-1, 600>>}

CompositorSends(m) ==
  \/ /\ ~comp.focused
     /\ \E S \in SUBSET comp.held :
          /\ m = Msg("enter", 1, 0)
          /\ comp' = [focused |-> TRUE, held |-> S]
  \/ /\ comp.focused
     /\ m = Msg("leave", 0, 0)
     /\ comp' = [comp EXCEPT !.focused = FALSE]
  \/ /\ comp.focused
     /\ \E k \in Keys \ comp.held :
          /\ m = Msg("key", k, 1)
          /\ comp' = [comp EXCEPT !.held = @ \cup {k}]
  \/ /\ comp.focused
     /\ \E k \in comp.held :
          /\ m = Msg("key", k, 0)
          /\ comp' = [comp EXCEPT !.held = @ \ {k}]
  \/ /\ \E ri \in RepeatInfoArgs \cup ExtremeRepeatInfoArgs :
          m = Msg("repeat_info", ri[1], ri[2])
     /\ comp' = comp
  \/ /\ m = Msg("button", 272, 1)
     /\ comp' = comp
  \/ /\ m = Msg("close", 0, 0)
     /\ comp' = comp
  \/ /\ Len(pingLog) < MaxPings
     /\ \E serial \in Serials : m = Msg("ping", serial, 0)
     /\ comp' = comp

Messages ==
  {Msg("enter", 1, 0), Msg("leave", 0, 0), Msg("button", 272, 1),
   Msg("close", 0, 0)}
  \cup {Msg("key", k, st) : k \in Keys, st \in {0, 1}}
  \cup {Msg("repeat_info", ri[1], ri[2]) : ri \in RepeatInfoArgs}

----------------------------------------------------------------------------
\* The display-data lock: what a step does with it, in program order

\* one handler call for every call of cs
Handlers(cs) == [i \in DOMAIN cs |-> "handler"]

\* the loop condition: try_lock().unwrap().quit_ordered is not evaluated
\* when display.closed is set; the guard is a temporary of the condition
LoopCondOps(cl) == IF cl THEN <<>> ELSE <<"lock", "unlock">>

\* a quit check that calls the handler with the guard alive
QuitCheckOpsHeld(asks) ==
  IF asks THEN <<"lock", "handler", "unlock">> ELSE <<"lock", "unlock">>

\* the quit check: drop(d) before quit_requested_event, a second guard
\* behind it
QuitCheckOps(asks) ==
  IF asks THEN <<"lock", "unlock", "handler", "lock", "unlock">>
  ELSE <<"lock", "unlock">>

\* one event of the drain: FilesDropped fills dropped_files under the lock
\* and drops the guard before files_dropped_event
DrainOps(ev, cs) ==
  (IF ev.type = "FilesDropped" THEN <<"lock", "unlock">> ELSE <<>>)
  \o Handlers(cs)

\* xdg_toplevel_handle_configure: the guard is dropped before resize_event,
\* or at the end of the callback
ConfigureOps(cs) == <<"lock", "unlock">> \o Handlers(cs)

-----------------------------------------------------------------------------
\* run(): the event loop

\* the loop condition: !(display.closed || quit_ordered)
LoopContinues(cl, qo) == ~(cl \/ qo)

LoopCond ==
  /\ pc = "cond"
  /\ pc' = IF LoopContinues(closed, quit_ordered) THEN "requests" ELSE "exited"
  /\ calls' = <<>>
  /\ asked' = FALSE
  /\ UNCHANGED <<pushLog, delivLog, upSeen, repeatBlocked, leaveDrained,
                 pressedAtZero, lastDown, redrawDue, pingLog>>
  /\ UNCHANGED <<blocking, closed, update_requested, keyboard_context, timerfd,
                 EVENTS, keymods, quit_requested, quit_ordered, rx, batch,
                 revents, comp>>
  /\ UNCHANGED aux
  /\ UNCHANGED shell
  /\ displayOps' = <<>>
  /\ UNCHANGED read_intent
  /\ lockOps' = LoopCondOps(closed)

\* a request drain that drops ScheduleUpdate
AfterRequestsDropped(ch, upd) == upd

\* while let Ok(request) = rx.try_recv(): the flag after the requests of ch
RECURSIVE AfterRequests(_, _)
AfterRequests(ch, upd) ==
  IF ch = <<>> THEN upd
  ELSE AfterRequests(Tail(ch),
         IF Head(ch) = "ScheduleUpdate" THEN TRUE ELSE upd)

\* a request drain that queues nothing
QueuedByRequestsNone(ch, out) == out

\* while let Ok(request) = rx.try_recv(): the requests queued for the
\* compositor after the requests of ch
RECURSIVE QueuedByRequests(_, _)
QueuedByRequests(ch, out) ==
  IF ch = <<>> THEN out
  ELSE QueuedByRequests(Tail(ch),
         IF Head(ch) = "SetFullscreen"
         THEN Append(out, [request |-> "set_fullscreen", serial |-> 0])
         ELSE out)

DrainRequests ==
  /\ pc = "requests"
  /\ update_requested' = AfterRequests(rx, update_requested)
  /\ outbound' = QueuedByRequests(rx, outbound)
  /\ rx' = <<>>
  /\ pc' = "block"
  /\ calls' = <<>>
  /\ UNCHANGED <<blocking, closed, keyboard_context, timerfd, EVENTS, keymods,
                 quit_requested, quit_ordered, batch, revents, comp>>
  /\ UNCHANGED hist
  /\ UNCHANGED aux
  /\ UNCHANGED <<sends, unread>>
  /\ displayOps' = <<>>
  /\ UNCHANGED read_intent
  /\ lockOps' = <<>>

\* a wait step that polls whatever the flag says
EntersPollAlways(upd) == TRUE

\* if !self.update_requested && poll(..) > 0: no poll at all when an update
\* is requested (cancel_read)
EntersPoll(upd) == ~upd

\* wl_display_flush writes the queued requests to the connection
wl_display_flush(out) == <<>>

\* a release that always reads
ReleaseOpReads(wl) == "read_events"

\* after poll: wl_display_read_events if the display is readable,
\* wl_display_cancel_read otherwise
ReleaseOp(wl) == IF wl THEN "read_events" ELSE "cancel_read"

\* the end of the prepare_read loop: wl_display_prepare_read returns 0; if
\* poll is skipped the else branch calls wl_display_cancel_read
PrepareOps(upd) ==
  IF EntersPoll(upd) THEN <<"prepare_read">>
  ELSE <<"prepare_read", "cancel_read">>

\* the read intents held after the calls of ops
RECURSIVE IntentAfter(_, _)
IntentAfter(n, ops) ==
  IF ops = <<>> THEN n
  ELSE IntentAfter(IF Head(ops) = "prepare_read" THEN n + 1 ELSE n - 1,
                   Tail(ops))

\* where block_on_new_event goes once wl_display_prepare_read has succeeded
AfterPrepare(upd) == IF EntersPoll(upd) THEN "poll" ELSE "drain"

\* block_on_new_event up to poll: fds with revents 0, flush, and the
\* prepare_read loop; `pending` says whether messages that were read
\* earlier (by a roundtrip or by eglSwapBuffers) wait to be dispatched
BlockEnter ==
  /\ pc = "block"
  /\ \E pending \in BOOLEAN :
       /\ pc' = IF pending THEN "dispatch" ELSE AfterPrepare(update_requested)
       /\ displayOps' = IF pending THEN <<>> ELSE PrepareOps(update_requested)
       /\ unread' = (unread /\ ~pending)
  /\ read_intent' = IntentAfter(read_intent, displayOps')
  /\ batch' = 0
  /\ revents' = [wl |-> FALSE, timer |-> FALSE]
  /\ outbound' = wl_display_flush(outbound)
  /\ calls' = <<>>
  /\ UNCHANGED sends
  /\ UNCHANGED <<blocking, closed, update_requested, keyboard_context, timerfd,
                 EVENTS, keymods, quit_requested, quit_ordered, rx, comp>>
  /\ UNCHANGED hist
  /\ UNCHANGED aux
  /\ lockOps' = <<>>

\* poll returns once the connection or the timer is readable; wl says
\* whether the compositor has sent anything
PollReturn ==
  /\ pc = "poll"
  /\ \E wl \in BOOLEAN :
       /\ wl \/ timerfd.ticks > 0
       /\ unread => wl
       /\ wl => batch < MaxBatch
       /\ revents' = [wl |-> wl, timer |-> timerfd.ticks > 0]
       /\ pc' = IF wl THEN "dispatch" ELSE "timer"
       /\ displayOps' = <<ReleaseOp(wl)>>
       /\ unread' = (unread /\ ReleaseOp(wl) # "read_events")
  /\ read_intent' = IntentAfter(read_intent, displayOps')
  /\ calls' = <<>>
  /\ UNCHANGED <<blocking, closed, update_requested, keyboard_context, timerfd,
                 EVENTS, keymods, quit_requested, quit_ordered, rx, batch, comp>>
  /\ UNCHANGED hist
  /\ UNCHANGED aux
  /\ UNCHANGED <<sends, outbound>>
  /\ lockOps' = <<>>

\* the events q2 holds behind those of q
Pushed(q, q2) == SubSeq(q2, Len(q) + 1, Len(q2))

\* pressedAtZero while the last repeat-info had a nonzero rate
NotZero == {None}

\* wl_display_dispatch_pending, in the prepare_read loop (revents.wl is
\* still clear) or behind wl_display_read_events: the listener call for the
\* next message m that was read; `more` says whether another one was read
\* behind it
Dispatch ==
  /\ pc = "dispatch"
  /\ batch < MaxBatch
  /\ \E m \in sends, more \in BOOLEAN :
       /\ CompositorSends(m)
       /\ outbound' = IF m.msg = "ping"
                      THEN xdg_wm_base_handle_ping(outbound, m.a)
                      ELSE outbound
       /\ pingLog' = IF m.msg = "ping" THEN Append(pingLog, m.a) ELSE pingLog
       /\ LET s == Listener(Session(keyboard_context, timerfd, EVENTS, closed), m)
          IN /\ keyboard_context' = s.kc
             /\ timerfd' = s.tfd
             /\ EVENTS' = s.q
             /\ closed' = s.cl
       /\ IF more /\ batch + 1 < MaxBatch
          THEN pc' = "dispatch" /\ batch' = batch + 1
          ELSE /\ pc' = IF revents.wl THEN "timer"
                      ELSE AfterPrepare(update_requested)
               /\ batch' = IF pc' = "poll" THEN batch + 1 ELSE 0
       /\ displayOps' = IF pc' = "dispatch" \/ revents.wl THEN <<>>
                        ELSE PrepareOps(update_requested)
       /\ read_intent' = IntentAfter(read_intent, displayOps')
       /\ repeatBlocked' = (repeatBlocked \/ m.msg = "leave")
       /\ pressedAtZero' =
            CASE m.msg = "repeat_info" -> IF m.a = 0 THEN {} ELSE NotZero
              [] m.msg = "key" /\ m.b = 1 /\ pressedAtZero # NotZero ->
                   pressedAtZero \cup {m.a}
              [] OTHER -> pressedAtZero
  /\ calls' = <<>>
  /\ pushLog' = pushLog \o Pushed(EVENTS, EVENTS')
  /\ UNCHANGED <<blocking, update_requested, keymods, quit_requested,
                 quit_ordered, rx, revents, delivLog, upSeen, leaveDrained,
                 lastDown, asked, redrawDue, sends, unread>>
  /\ UNCHANGED aux
  /\ lockOps' = <<>>

\* for _ in 0..count[0] { EVENTS.push(KeyboardKey { key, Repeat }) }
RECURSIVE PushRepeats(_, _, _)
PushRepeats(q, key, count) ==
  IF count = 0 THEN q
  ELSE PushRepeats(Append(q, KeyboardKey(key, "Repeat")), key, count - 1)

\* a timer step that queues one repeat however many expirations it read
RepeatEventsOnce(q, key, count) ==
  IF key # None THEN Append(q, KeyboardKey(key, "Repeat")) ELSE q

\* the events queued for a read of `count` expirations
RepeatEvents(q, key, count) ==
  IF key # None THEN PushRepeats(q, key, count) ELSE q

\* the timer step: nothing when the timer did not wake poll; otherwise a
\* read of the expiration counter, which blocks while the counter is zero.
\* block_on_new_event returns and fds is gone.
TimerStep ==
  /\ pc = "timer"
  /\ \/ /\ ~revents.timer
        /\ UNCHANGED <<timerfd, EVENTS>>
     \/ /\ revents.timer
        /\ timerfd.ticks > 0
        /\ EVENTS' = RepeatEvents(EVENTS, keyboard_context.repeated_key,
                                  timerfd.ticks)
        /\ timerfd' = [timerfd EXCEPT !.ticks = 0]
  /\ pc' = "drain"
  /\ revents' = [wl |-> FALSE, timer |-> FALSE]
  /\ batch' = 0
  /\ calls' = <<>>
  /\ pushLog' = pushLog \o Pushed(EVENTS, EVENTS')
  /\ UNCHANGED <<blocking, closed, update_requested, keyboard_context, keymods,
                 quit_requested, quit_ordered, rx, comp,
                 delivLog, upSeen, repeatBlocked, leaveDrained, pressedAtZero,
                 lastDown, asked, redrawDue, pingLog>>
  /\ UNCHANGED aux
  /\ UNCHANGED shell
  /\ displayOps' = <<>>
  /\ UNCHANGED read_intent
  /\ lockOps' = <<>>

\* a KeyboardLeave branch that forgets the shift flag
ModsAfterLeaveKeepShift(mods) ==
  [mods EXCEPT !.ctrl = FALSE, !.logo = FALSE, !.alt = FALSE]

\* the KeyboardLeave branch of the drain: all four flags are cleared
ModsAfterLeave(mods) ==
  [mods EXCEPT !.shift = FALSE, !.ctrl = FALSE, !.logo = FALSE, !.alt = FALSE]

\* match keycode { LeftShift | RightShift => keymods.shift = state.into(), .. }
ModsAfterKey(mods, key, state) ==
  CASE Keycode(key) \in {"LeftShift", "RightShift"} ->
         [mods EXCEPT !.shift = StateIntoBool(state)]
    [] Keycode(key) \in {"LeftControl", "RightControl"} ->
         [mods EXCEPT !.ctrl = StateIntoBool(state)]
    [] Keycode(key) \in {"LeftAlt", "RightAlt"} ->
         [mods EXCEPT !.alt = StateIntoBool(state)]
    [] Keycode(key) \in {"LeftSuper", "RightSuper"} ->
         [mods EXCEPT !.logo = StateIntoBool(state)]
    [] OTHER -> mods

\* if !repeat && should_repeat { display.keyboard_context.key_down(key) }
StartsRepeat(key, state) == state = "Pressed" /\ should_repeat(key)

\* a key event that never makes a char_event call
KeyCallsOnce(key, state, mods) ==
  IF StateIntoBool(state)
  THEN <<Call("key_down_event", key, state = "Repeat", mods)>>
  ELSE <<Call("key_up_event", key, FALSE, mods)>>

\* the handler calls of one KeyboardKey event
KeyCalls(key, state, mods) ==
  IF StateIntoBool(state)
  THEN <<Call("key_down_event", key, state = "Repeat", mods)>>
       \o (IF HasChar(key)
           THEN <<Call("char_event", key, state = "Repeat", mods)>>
           ELSE <<>>)
  ELSE <<Call("key_up_event", key, FALSE, mods)>>

\* one turn of `for event in EVENTS.drain(..)`: what the event leaves of
\* keymods, keyboard_context and the timer, and the handler calls it makes
HandleEvent(ev, mods, kc, tfd) ==
  CASE ev.type = "KeyboardLeave" ->
         [mods |-> ModsAfterLeave(mods), kc |-> kc, tfd |-> tfd,
          calls |-> <<>>]
    [] ev.type = "KeyboardKey" ->
         LET m == ModsAfterKey(mods, ev.key, ev.state)
             d == IF StartsRepeat(ev.key, ev.state)
                  THEN key_down(kc, tfd, ev.key)
                  ELSE [kc |-> kc, tfd |-> tfd]
         IN [mods |-> m, kc |-> d.kc, tfd |-> d.tfd,
             calls |-> KeyCalls(ev.key, ev.state, m)]
    [] ev.type = "PointerMotion" ->
         [mods |-> mods, kc |-> kc, tfd |-> tfd,
          calls |-> <<Call("mouse_motion_event", None, FALSE, mods)>>]
    [] ev.type = "PointerAxis" ->
         [mods |-> mods, kc |-> kc, tfd |-> tfd,
          calls |-> <<Call("mouse_wheel_event", None, FALSE, mods)>>]
    [] ev.type = "FilesDropped" ->
         [mods |-> mods, kc |-> kc, tfd |-> tfd,
          calls |-> <<Call("files_dropped_event", None, FALSE, mods)>>]
    [] OTHER ->
         [mods |-> mods, kc |-> kc, tfd |-> tfd,
          calls |-> <<Call(IF ev.state = "Pressed"
                           THEN "mouse_button_down_event"
                           ELSE "mouse_button_up_event", None, FALSE, mods)>>]

\* a drain that pops the events from the back of the queue
DrainedFromBack(q) == [ev |-> q[Len(q)], rest |-> SubSeq(q, 1, Len(q) - 1)]

\* EVENTS.drain(..) takes the events from the front: the event handled
\* next and the events left
Drained(q) == [ev |-> Head(q), rest |-> Tail(q)]

\* a drain that stops one event short
DrainDoneEarly(q) == Len(q) <= 1

\* the for loop ends when the queue is empty
DrainDone(q) == q = <<>>

\* what the application does inside an input callback
InputActs == {"none", "request_quit", "order_quit"}

DrainEvent ==
  /\ pc = "drain"
  /\ ~DrainDone(EVENTS)
  /\ LET d == Drained(EVENTS)
         ev == d.ev
         r == HandleEvent(ev, keymods, keyboard_context, timerfd)
     IN /\ keymods' = r.mods
        /\ keyboard_context' = r.kc
        /\ timerfd' = r.tfd
        /\ calls' = r.calls
        /\ EVENTS' = d.rest
        /\ pc' = IF DrainDone(d.rest) THEN "quit" ELSE "drain"
        /\ \E act \in InputActs :
             /\ r.calls = <<>> => act = "none"
             /\ quit_requested' = (quit_requested \/ act = "request_quit")
             /\ quit_ordered' = (quit_ordered \/ act = "order_quit")
        /\ delivLog' = IF DrainDone(d.rest) THEN <<>> ELSE Append(delivLog, ev)
        /\ pushLog' = IF DrainDone(d.rest) THEN <<>> ELSE pushLog
        /\ leaveDrained' = CASE ev.type = "KeyboardLeave" -> TRUE
                              [] ev.type = "KeyboardKey" -> FALSE
                              [] OTHER -> leaveDrained
        /\ upSeen' = CASE ev.type = "KeyboardKey" /\ ev.state = "Released" ->
                            upSeen \cup {ev.key}
                       [] ev.type = "KeyboardKey" /\ ev.state = "Pressed" ->
                            upSeen \ {ev.key}
                       [] OTHER -> upSeen
        /\ repeatBlocked' =
             IF /\ ev.type = "KeyboardKey" /\ ev.state = "Pressed"
                /\ \A i \in DOMAIN d.rest : d.rest[i].type # "KeyboardLeave"
             THEN FALSE ELSE repeatBlocked
        /\ lastDown' = IF ev.type = "KeyboardKey"
                          /\ StartsRepeat(ev.key, ev.state)
                       THEN ev.key ELSE lastDown
  /\ UNCHANGED <<blocking, closed, update_requested, rx, batch, revents, comp,
                 pressedAtZero, asked, redrawDue, pingLog>>
  /\ UNCHANGED aux
  /\ UNCHANGED shell
  /\ displayOps' = <<>>
  /\ UNCHANGED read_intent
  /\ lockOps' = DrainOps(Drained(EVENTS).ev, calls')

\* nothing was queued in this wake
DrainEnd ==
  /\ pc = "drain"
  /\ DrainDone(EVENTS)
  /\ pc' = "quit"
  /\ calls' = <<>>
  /\ UNCHANGED <<blocking, closed, update_requested, keyboard_context, timerfd,
                 EVENTS, keymods, quit_requested, quit_ordered, rx, batch,
                 revents, comp>>
  /\ UNCHANGED hist
  /\ UNCHANGED aux
  /\ UNCHANGED shell
  /\ displayOps' = <<>>
  /\ UNCHANGED read_intent
  /\ lockOps' = <<>>

\* a quit check that does not look at quit_ordered
AsksHandlerAgain(qr, qo) == qr

\* if d.quit_requested && !d.quit_ordered
AsksHandler(qr, qo) == qr /\ ~qo

\* if d.quit_requested { d.quit_ordered = true }, after the handler returned
OrderedAfter(qr, qo) == IF qr THEN TRUE ELSE qo

\* the quit check; the handler vetoes by clearing quit_requested
QuitCheck ==
  /\ pc = "quit"
  /\ \/ /\ AsksHandler(quit_requested, quit_ordered)
        /\ \E veto \in BOOLEAN :
             /\ quit_requested' = (quit_requested /\ ~veto)
             /\ quit_ordered' = OrderedAfter(quit_requested', quit_ordered)
        /\ calls' = <<Call("quit_requested_event", None, FALSE, keymods)>>
        /\ asked' = TRUE
     \/ /\ ~AsksHandler(quit_requested, quit_ordered)
        /\ calls' = <<>>
        /\ UNCHANGED <<quit_requested, quit_ordered, asked>>
  /\ pc' = "frame"
  /\ UNCHANGED <<blocking, closed, update_requested, keyboard_context, timerfd,
                 EVENTS, keymods, rx, batch, revents, comp, pushLog, delivLog,
                 upSeen, repeatBlocked, leaveDrained, pressedAtZero, lastDown,
                 redrawDue, pingLog>>
  /\ UNCHANGED aux
  /\ UNCHANGED shell
  /\ displayOps' = <<>>
  /\ UNCHANGED read_intent
  /\ lockOps' = QuitCheckOps(AsksHandler(quit_requested, quit_ordered))

\* if !conf.platform.blocking_event_loop || display.update_requested
DrawsFrame(blk, upd) == ~blk \/ upd

\* what the application does inside update() and draw()
AppActs == {"none", "request_quit", "order_quit", "schedule_update",
            "set_fullscreen"}

\* the frame step: update_requested is cleared before update() and draw()
Frame ==
  /\ pc = "frame"
  /\ \/ /\ DrawsFrame(blocking, update_requested)
        /\ update_requested' = FALSE
        /\ calls' = <<Call("update", None, FALSE, keymods),
                      Call("draw", None, FALSE, keymods)>>
        /\ \E act \in AppActs :
             /\ quit_requested' = (quit_requested \/ act = "request_quit")
             /\ quit_ordered' = (quit_ordered \/ act = "order_quit")
             /\ rx' = CASE act = "schedule_update" -> Append(rx, "ScheduleUpdate")
                        [] act = "set_fullscreen" -> Append(rx, "SetFullscreen")
                        [] OTHER -> rx
             /\ redrawDue' = (act = "schedule_update")
     \/ /\ ~DrawsFrame(blocking, update_requested)
        /\ calls' = <<>>
        /\ UNCHANGED <<update_requested, quit_requested, quit_ordered, rx,
                       redrawDue>>
  /\ pc' = "cond"
  /\ UNCHANGED <<blocking, closed, keyboard_context, timerfd, EVENTS, keymods,
                 batch, revents, comp>>
  /\ UNCHANGED <<pushLog, delivLog, upSeen, repeatBlocked, leaveDrained,
                 pressedAtZero, lastDown, asked, pingLog>>
  /\ UNCHANGED aux
  /\ UNCHANGED shell
  /\ displayOps' = <<>>
  /\ UNCHANGED read_intent
  /\ lockOps' = Handlers(calls')

----------------------------------------------------------------------------
\* The toplevel configure

MaxSide == 4    \* the small widths and heights run from 0 to MaxSide

\* widths and heights a configure can carry: small ones, below the
\* decoration margins, and 800 x 600; all of them are converted to f32
\* without loss
Sides == (0..MaxSide) \cup {600, 800}

\* conf.window_width, conf.window_height
ConfSize == <<8, 6>>

\* decorations::Decorations::WIDTH and BAR_HEIGHT, the fixed margins of the
\* fallback decorations
WIDTH == 2
BAR_HEIGHT == 15

\* event_handler.resize_event(width as _, height as _)
ResizeCall(width, height) ==
  [fn |-> "resize_event", width |-> width, height |-> height]

\* the state xdg_toplevel_handle_configure works on, and the handler calls
\* it makes
Window(deco, handler, egl, sw, sh) ==
  [decorations |-> deco, event_handler |-> handler, egl_window |-> egl,
   screen_width |-> sw, screen_height |-> sh, calls |-> <<>>]

\* an EGL size that forgets the title bar
EglSizeNoBar(some, width, height) ==
  IF some THEN <<width - WIDTH * 2, height - WIDTH>> ELSE <<width, height>>

\* let (egl_w, egl_h) = if payload.decorations.is_some() { .. } else { .. }
EglSize(some, width, height) ==
  IF some
  THEN <<width - WIDTH * 2, height - BAR_HEIGHT - WIDTH>>
  ELSE <<width, height>>

\* xdg_toplevel_handle_configure
xdg_toplevel_handle_configure(w, width, height) ==
  IF width # 0 /\ height # 0
  THEN [w EXCEPT
          !.egl_window = EglSize(w.decorations.some, width, height),
          !.screen_width = width,
          !.screen_height = height,
          !.decorations = IF w.decorations.some
                          THEN [some |-> TRUE, size |-> <<width, height>>]
                          ELSE w.decorations,
          !.calls = IF w.event_handler
                    THEN <<ResizeCall(width, height)>>
                    ELSE <<>>]
  ELSE w

\* wl_display_dispatch_pending calls the toplevel listener for a configure
\* the compositor has sent
Configure ==
  /\ \E width \in Sides, height \in Sides :
       LET w == xdg_toplevel_handle_configure(
                  Window(decorations, event_handler, egl_window, screen_width,
                         screen_height), width, height)
       IN /\ decorations' = w.decorations
          /\ event_handler' = w.event_handler
          /\ egl_window' = w.egl_window
          /\ screen_width' = w.screen_width
          /\ screen_height' = w.screen_height
          /\ calls' = w.calls
          /\ configured' = <<width, height>>
  /\ UNCHANGED <<pc, blocking, closed, update_requested, keyboard_context,
                 timerfd, EVENTS, keymods, quit_requested, quit_ordered, rx,
                 batch, revents, comp>>
  /\ UNCHANGED hist
  /\ UNCHANGED <<startup, pointer, threads, seat, registry>>
  /\ UNCHANGED shell
  /\ UNCHANGED reader
  /\ lockOps' = ConfigureOps(calls')

----------------------------------------------------------------------------
\* The startup of run(), from the registry dispatch to the loop

\* interface names a compositor may announce; wl_output is one that
\* registry_add_object does not know
Interfaces ==
  {"wl_compositor", "wl_subcompositor", "xdg_wm_base",
   "zxdg_decoration_manager_v1", "wp_viewporter", "wl_shm", "wl_seat",
   "wl_data_device_manager", "wl_output"}

\* registry_add_object: the handle a global is bound to; wl_registry_bind
\* gives a proxy for every global that was announced
registry_add_object(b, interface) ==
  CASE interface = "wl_compositor" -> b \cup {"compositor"}
    [] interface = "wl_subcompositor" -> b \cup {"subcompositor"}
    [] interface = "xdg_wm_base" -> b \cup {"xdg_wm_base"}
    [] interface \in {"zxdg_decoration_manager",
                      "zxdg_decoration_manager_v1"} ->
         b \cup {"decoration_manager"}
    [] interface = "wp_viewporter" -> b \cup {"viewporter"}
    [] interface = "wl_shm" -> b \cup {"shm"}
    [] interface = "wl_seat" -> b \cup {"seat"}
    [] interface = "wl_data_device_manager" -> b \cup {"data_device_manager"}
    [] OTHER -> b

\* the version registry_add_object passes to wl_registry_bind, 0 when it
\* binds nothing from a global advertised at `version`
BindVersionOffered(interface, version) == version

BindVersion(interface, version) ==
  CASE interface \in {"wl_compositor", "wl_subcompositor", "xdg_wm_base",
                      "zxdg_decoration_manager", "zxdg_decoration_manager_v1",
                      "wp_viewporter", "wl_shm"} -> 1
    [] interface = "wl_seat" -> IF 4 < version THEN 4 ELSE version
    [] interface = "wl_data_device_manager" -> 3
    [] OTHER -> 0

\* the registry listener is called once for every global of G
RECURSIVE BindAll(_, _)
BindAll(b, G) ==
  IF G = {} THEN b
  ELSE LET g == CHOOSE x \in G : TRUE
       IN BindAll(registry_add_object(b, g), G \ {g})

\* wl_proxy_add_listener on the registry and the first wl_display_dispatch
RegistryDispatch ==
  /\ step = "registry"
  /\ \E G \in SUBSET Interfaces :
       /\ advertised' = G
       /\ bound' = BindAll(bound, G)
  /\ step' = "wm_base_listener"
  /\ UNCHANGED <<nullUsed, wayland_use_fallback_decorations>>
  /\ UNCHANGED <<registry, seat, threads, pointer, prog, hist, window>>

\* a step of run() that hands the handles of `handles` to libwayland as the
\* proxy of a request or of a listener registration: a null one is
\* dereferenced there and the process dies
Advance(from, to, handles) ==
  /\ step = from
  /\ IF handles \subseteq bound
     THEN step' = to /\ nullUsed' = nullUsed
     ELSE step' = "crashed" /\ nullUsed' = nullUsed \cup (handles \ bound)

\* wl_proxy_add_listener(display.xdg_wm_base, &xdg_wm_base_listener, ..)
AddWmBaseListener ==
  /\ Advance("wm_base_listener", "create_surface", {"xdg_wm_base"})
  /\ UNCHANGED <<advertised, bound, wayland_use_fallback_decorations>>
  /\ UNCHANGED <<registry, seat, threads, pointer, prog, hist, window>>

\* display.surface = wl_compositor.create_surface
CreateSurface ==
  /\ Advance("create_surface", "xdg_surface", {"compositor"})
  /\ UNCHANGED <<advertised, bound, wayland_use_fallback_decorations>>
  /\ UNCHANGED <<registry, seat, threads, pointer, prog, hist, window>>

\* xdg_surface and xdg_toplevel with their listeners, title, app id and the
\* first commit
CreateToplevel ==
  /\ Advance("xdg_surface", "dispatch", {"xdg_wm_base"})
  /\ UNCHANGED <<advertised, bound, wayland_use_fallback_decorations>>
  /\ UNCHANGED <<registry, seat, threads, pointer, prog, hist, window>>

\* sizes of a configure the compositor may answer the first commit with
FirstConfigures == {<<0, 0>>, <<800, 600>>}

\* the second wl_display_dispatch: it may or may not deliver a toplevel
\* configure; the EGL window does not exist yet, and a configure with a
\* nonzero size resizes the null window: the process dies there, or the
\* resize of the null window does nothing and the callback goes on to
\* store the size (there is no handler and there are no decorations yet)
DispatchFirst ==
  /\ step = "dispatch"
  /\ \/ /\ step' = "egl_window"
        /\ UNCHANGED <<nullUsed, configured, screen_width, screen_height>>
     \/ \E c \in FirstConfigures, survives \in BOOLEAN :
          /\ configured' = c
          /\ IF c[1] # 0 /\ c[2] # 0
             THEN /\ step' = IF survives THEN "egl_window" ELSE "crashed"
                  /\ nullUsed' = nullUsed \cup {"egl_window"}
                  /\ screen_width' = IF survives THEN c[1] ELSE screen_width
                  /\ screen_height' = IF survives THEN c[2] ELSE screen_height
             ELSE /\ step' = "egl_window"
                  /\ nullUsed' = nullUsed
                  /\ UNCHANGED <<screen_width, screen_height>>
  /\ UNCHANGED <<advertised, bound, wayland_use_fallback_decorations>>
  /\ UNCHANGED <<decorations, event_handler, egl_window>>
  /\ UNCHANGED <<registry, seat, threads, pointer, prog, hist>>

\* wl_egl_window_create with the configured size, the EGL surface, and the
\* optional set_fullscreen
CreateEglWindow ==
  /\ step = "egl_window"
  /\ egl_window' = ConfSize
  /\ step' = "decorations"
  /\ UNCHANGED <<advertised, bound, nullUsed,
                 wayland_use_fallback_decorations>>
  /\ UNCHANGED <<decorations, event_handler, screen_width, screen_height,
                 configured>>
  /\ UNCHANGED <<registry, seat, threads, pointer, prog, hist>>

\* server-side decorations when the manager is bound, else the fallback
\* decorations when the configuration asks for them
SetupDecorations ==
  /\ step = "decorations"
  /\ decorations' =
       IF "decoration_manager" \notin bound
          /\ wayland_use_fallback_decorations
       THEN [some |-> TRUE, size |-> ConfSize]
       ELSE decorations
  /\ step' = "handler"
  /\ UNCHANGED <<advertised, bound, nullUsed,
                 wayland_use_fallback_decorations>>
  /\ UNCHANGED <<event_handler, egl_window, screen_width, screen_height,
                 configured>>
  /\ UNCHANGED <<registry, seat, threads, pointer, prog, hist>>

\* display.event_handler = Some(event_handler)
InstallHandler ==
  /\ step = "handler"
  /\ event_handler' = TRUE
  /\ step' = "data_device"
  /\ UNCHANGED <<advertised, bound, nullUsed,
                 wayland_use_fallback_decorations>>
  /\ UNCHANGED <<decorations, egl_window, screen_width, screen_height,
                 configured>>
  /\ UNCHANGED <<registry, seat, threads, pointer, prog, hist>>

\* display.data_device = wl_data_device_manager.get_data_device(seat), its
\* null check and its listener; a null seat makes the request fail and the
\* assertion panic
GetDataDevice ==
  /\ step = "data_device"
  /\ IF "data_device_manager" \notin bound
     THEN /\ step' = "crashed"
          /\ nullUsed' = nullUsed \cup {"data_device_manager"}
     ELSE /\ step' = IF "seat" \in bound THEN "loop" ELSE "panicked"
          /\ nullUsed' = nullUsed
  /\ UNCHANGED <<advertised, bound, wayland_use_fallback_decorations>>
  /\ UNCHANGED <<registry, seat, threads, pointer, prog, hist, window>>

----------------------------------------------------------------------------
vars == <<prog, hist, aux>>

\* the loop's state when run() reaches the loop
LoopInit ==
  /\ pc = "cond"
  /\ blocking \in BOOLEAN
  /\ closed = FALSE
  /\ update_requested = TRUE
  /\ keyboard_context = [enter_serial |-> None,
                         repeat_info |-> RepeatInfoDefault,
                         repeated_key |-> None]
  /\ timerfd = timerfd_settime(0, 0)
  /\ EVENTS = <<>>
  /\ keymods = NoMods
  /\ quit_requested = FALSE
  /\ quit_ordered = FALSE
  /\ rx = <<>>
  /\ batch = 0
  /\ revents = [wl |-> FALSE, timer |-> FALSE]
  /\ comp = [focused |-> FALSE, held |-> {}]
  /\ calls = <<>>
  /\ pushLog = <<>>
  /\ delivLog = <<>>
  /\ upSeen = {}
  /\ repeatBlocked = FALSE
  /\ leaveDrained = FALSE
  /\ pressedAtZero = NotZero
  /\ lastDown = None
  /\ asked = FALSE
  /\ redrawDue = TRUE
  /\ outbound = <<>>
  /\ sentBlocked = FALSE
  /\ read_intent = 0
  /\ displayOps = <<>>
  /\ lockOps = <<>>
  /\ unread = FALSE
  /\ pingLog = <<>>

\* the window when run() reaches the loop: the EGL window was created with
\* the configured size, the handler is installed, and the fallback
\* decorations, if they are drawn, were created with that size too
WindowInit(fallback) ==
  /\ decorations = [some |-> fallback, size |-> ConfSize]
  /\ event_handler = TRUE
  /\ egl_window = ConfSize
  /\ screen_width = ConfSize[1]
  /\ screen_height = ConfSize[2]
  /\ configured = <<0, 0>>

\* the startup is over: the loop is entered only with every handle that
\* the startup uses bound
StartupDone ==
  /\ step = "loop"
  /\ advertised = Interfaces
  /\ bound = BindAll({}, Interfaces)
  /\ nullUsed = {}
  /\ wayland_use_fallback_decorations = FALSE

\* no axis message is under test; the seat has announced a pointer and a
\* keyboard once
PointerIdle ==
  /\ axisIn = <<0, 0>>
  /\ axisDone = FALSE
  /\ caps = {"pointer", "keyboard"}
  /\ pointers = 1
  /\ keyboards = 1
  /\ global = <<"", 0>>
  /\ bindVersion = 0

Init ==
  LoopInit /\ WindowInit(FALSE) /\ StartupDone /\ sends = Messages /\ PointerIdle

Next ==
  \/ LoopCond
  \/ DrainRequests
  \/ BlockEnter
  \/ PollReturn
  \/ Dispatch
  \/ TimerExpire
  \/ TimerStep
  \/ DrainEvent
  \/ DrainEnd
  \/ QuitCheck
  \/ Frame

Spec == Init /\ [][Next]_vars

\* The toplevel configure on its own: any sequence of configures, with and
\* without fallback decorations
ConfigureInit ==
  /\ LoopInit
  /\ \E fallback \in BOOLEAN : WindowInit(fallback)
  /\ StartupDone
  /\ sends = Messages
  /\ PointerIdle

ConfigureNext == Configure

ConfigureSpec == ConfigureInit /\ [][ConfigureNext]_vars

\* The startup on its own: run() after the payload is constructed, with
\* whatever globals the compositor announces
StartupInit ==
  /\ LoopInit
  /\ decorations = [some |-> FALSE, size |-> ConfSize]
  /\ event_handler = FALSE
  /\ egl_window = None
  /\ screen_width = ConfSize[1]
  /\ screen_height = ConfSize[2]
  /\ configured = <<0, 0>>
  /\ step = "registry"
  /\ advertised = {}
  /\ bound = {}
  /\ nullUsed = {}
  /\ wayland_use_fallback_decorations \in BOOLEAN
  /\ sends = Messages
  /\ PointerIdle

StartupNext ==
  \/ RegistryDispatch
  \/ AddWmBaseListener
  \/ CreateSurface
  \/ CreateToplevel
  \/ DispatchFirst
  \/ CreateEglWindow
  \/ SetupDecorations
  \/ InstallHandler
  \/ GetDataDevice

StartupSpec == StartupInit /\ [][StartupNext]_vars

\* The loop with a compositor whose shell pings the client: the keyboard
\* gets the focus and key A is pressed, nothing else happens
ShellMessages ==
  {Msg("enter", 1, 0), Msg("key", 30, 1)}
  \cup {Msg("ping", serial, 0) : serial \in Serials}

ShellInit ==
  /\ LoopInit /\ WindowInit(FALSE) /\ StartupDone /\ PointerIdle
  /\ sends = ShellMessages

ShellSpec == ShellInit /\ [][Next]_vars

-----------------------------------------------------------------------------
\* The loop with a compositor that advertises repeat policies at the edges:
\* key A is pressed and released, the focus comes and goes

RepeatMessages ==
  {Msg("enter", 1, 0), Msg("leave", 0, 0), Msg("key", 30, 1),
   Msg("key", 30, 0)}
  \cup {Msg("repeat_info", ri[1], ri[2]) : ri \in ExtremeRepeatInfoArgs}

RepeatInit ==
  /\ LoopInit /\ WindowInit(FALSE) /\ StartupDone /\ PointerIdle
  /\ sends = RepeatMessages

RepeatSpec == RepeatInit /\ [][Next]_vars

-----------------------------------------------------------------------------
\* The registry listener on one global

MaxVersion == 6   \* the highest version a global is advertised at

Versions == 1 .. MaxVersion

\* the registry listener runs on the global
RegistryStep ==
  /\ step = "registry"
  /\ bound' = registry_add_object(bound, global[1])
  /\ bindVersion' = BindVersion(global[1], global[2])
  /\ step' = "wm_base_listener"
  /\ advertised' = {global[1]}
  /\ UNCHANGED <<global, nullUsed, wayland_use_fallback_decorations>>
  /\ UNCHANGED <<prog, hist, window, pointer, threads, seat>>

RegistryInit ==
  /\ LoopInit
  /\ decorations = [some |-> FALSE, size |-> ConfSize]
  /\ event_handler = FALSE
  /\ egl_window = None
  /\ screen_width = ConfSize[1]
  /\ screen_height = ConfSize[2]
  /\ configured = <<0, 0>>
  /\ step = "registry"
  /\ advertised = {}
  /\ bound = {}
  /\ nullUsed = {}
  /\ wayland_use_fallback_decorations = FALSE
  /\ sends = Messages
  /\ axisIn = <<0, 0>>
  /\ axisDone = FALSE
  /\ caps = {}
  /\ pointers = 0
  /\ keyboards = 0
  /\ global \in (Interfaces \cup {"zxdg_decoration_manager"}) \X Versions
  /\ bindVersion = 0

RegistryNext == RegistryStep

RegistrySpec == RegistryInit /\ [][RegistryNext]_vars

-----------------------------------------------------------------------------
\* The seat: capability notifications and the input objects they create

MaxObjects == 3   \* input objects of one kind the seat notifications create

\* wl_seat_capability bits
Capabilities == {"pointer", "keyboard", "touch"}

\* seat_handle_capabilities, result: the number of objects of a kind that
\* carry a listener; a new object with a listener for a bit that is set
NewObject(bit, cps) == IF bit \in cps THEN 1 ELSE 0

seat_handle_capabilities ==
  /\ \E cps \in SUBSET Capabilities :
       /\ caps' = cps
       /\ pointers' = pointers + NewObject("pointer", cps)
       /\ keyboards' = keyboards + NewObject("keyboard", cps)
  /\ pointers' <= MaxObjects
  /\ keyboards' <= MaxObjects
  /\ UNCHANGED <<prog, hist, window, startup, pointer, threads, registry>>

\* the compositor sends a button or a key to every wl_pointer or
\* wl_keyboard object of the client; each listener pushes its event
RECURSIVE Copies(_, _, _)
Copies(q, e, n) == IF n = 0 THEN q ELSE Copies(Append(q, e), e, n - 1)

SeatInput ==
  /\ EVENTS = <<>>
  /\ \/ EVENTS' = Copies(EVENTS, PointerButton(TRUE), pointers)
     \/ EVENTS' = Copies(EVENTS, KeyboardKey(30, "Pressed"), keyboards)
  /\ EVENTS' # <<>>
  /\ UNCHANGED <<pc, blocking, closed, update_requested, keyboard_context,
                 timerfd, keymods, quit_requested, quit_ordered, rx, batch,
                 revents, comp, calls>>
  /\ UNCHANGED <<shell, reader, locks, hist, aux>>

SeatInit ==
  /\ LoopInit /\ WindowInit(FALSE) /\ StartupDone /\ sends = Messages
  /\ axisIn = <<0, 0>>
  /\ axisDone = FALSE
  /\ caps = {}
  /\ pointers = 0
  /\ keyboards = 0
  /\ global = <<"", 0>>
  /\ bindVersion = 0

SeatNext == seat_handle_capabilities \/ SeatInput

SeatSpec == SeatInit /\ [][SeatNext]_vars

-----------------------------------------------------------------------------
\* Another thread sends requests on the channel

MaxRx == 2      \* requests another thread leaves in the channel

\* Request::ScheduleUpdate, Request::SetFullscreen(true) and a kind the
\* loop does not implement
Requests == {"ScheduleUpdate", "SetFullscreen", "SetCursorGrab"}

\* tx.send(request) on another thread
ThreadSend ==
  /\ pc # "exited"
  /\ Len(rx) < MaxRx
  /\ \E request \in Requests : rx' = Append(rx, request)
  /\ sentBlocked' = (pc = "poll")
  /\ UNCHANGED <<pc, blocking, closed, update_requested, keyboard_context,
                 timerfd, EVENTS, keymods, quit_requested, quit_ordered,
                 batch, revents, comp, calls>>
  /\ UNCHANGED <<shell, reader, locks, hist, window, startup, pointer, seat,
                 registry>>

\* the compositor gives the focus, key A is pressed, the window is closed
ThreadMessages ==
  {Msg("enter", 1, 0), Msg("key", 30, 1), Msg("close", 0, 0)}

ThreadInit ==
  /\ LoopInit /\ WindowInit(FALSE) /\ StartupDone /\ PointerIdle
  /\ sends = ThreadMessages

ThreadNext == Next \/ ThreadSend

ThreadSpec == ThreadInit /\ [][ThreadNext]_vars

-----------------------------------------------------------------------------
\* The scroll wheel: pointer_handle_axis on one axis message

\* f32 values: a NaN, or the rational n / d in lowest terms with d > 0
\* (the sign of a zero is not kept)
NaN == [class |-> "nan", n |-> 0, d |-> 1]

RECURSIVE Gcd(_, _)
Gcd(a, b) == IF b = 0 THEN a ELSE Gcd(b, a % b)

Magnitude(i) == IF i < 0 THEN -i ELSE i

F32(n, d) ==
  LET g == Gcd(Magnitude(n), d)
  IN  [class |-> "num", n |-> n \div g, d |-> d \div g]

\* f32::abs
FAbs(x) == IF x.class = "nan" THEN x ELSE [x EXCEPT !.n = Magnitude(x.n)]

\* unary minus on f32
FNeg(x) == IF x.class = "nan" THEN x ELSE [x EXCEPT !.n = -x.n]

\* f32 division, for a finite dividend: 0.0 / 0.0 is NaN; the quotients
\* taken here are exact
FDiv(x, y) ==
  IF x.class = "nan" \/ y.class = "nan" \/ y.n = 0 THEN NaN
  ELSE LET gn == Gcd(Magnitude(x.n), Magnitude(y.n))
           gd == Gcd(x.d, y.d)
           sn == IF y.n < 0 THEN -1 ELSE 1
       IN  F32(sn * (x.n \div gn) * (y.d \div gd),
               (x.d \div gd) * (Magnitude(y.n) \div gn))

\* i32 as f32: round to 24 significant bits, ties to even
RECURSIVE Shift24(_, _)
Shift24(m, sh) == IF m \div sh < 16777216 THEN sh ELSE Shift24(m, 2 * sh)

AsF32(i) ==
  LET m  == Magnitude(i)
      sh == Shift24(m, 1)
      q  == m \div sh
      r  == m % sh
      up == 2 * r > sh \/ (2 * r = sh /\ q % 2 = 1)
      rounded == (IF up THEN q + 1 ELSE q) * sh
  IN  IF i < 0 THEN -rounded ELSE rounded

\* wl_fixed_to_double: (f as f32) / 256.0
wl_fixed_to_double(f) == FDiv(F32(AsF32(f), 1), F32(256, 1))

\* WaylandEvent::PointerAxis(f32, f32)
PointerAxis(x, y) == [type |-> "PointerAxis", x |-> x, y |-> y]

\* pointer_handle_axis, result: the event queue
pointer_handle_axis(q, axis, raw) ==
  LET value0 == wl_fixed_to_double(raw)
      value  == FDiv(value0, FAbs(value0))
  IN  IF axis = 0 THEN Append(q, PointerAxis(F32(0, 1), FNeg(value)))
      ELSE IF axis = 1 THEN Append(q, PointerAxis(value, F32(0, 1)))
      ELSE q

\* raw 24.8 fixed-point axis values and axis ids the compositor can send
MaxRaw == 20
RawValues ==
  (-MaxRaw .. MaxRaw)
  \cup {256, -256, 3840, -3840, 16777217, -16777217, 1073741825, -1073741825}
Axes == 0 .. 2

\* the listener runs once on the message
PointerAxisStep ==
  /\ ~axisDone
  /\ EVENTS' = pointer_handle_axis(EVENTS, axisIn[1], axisIn[2])
  /\ axisDone' = TRUE
  /\ UNCHANGED <<axisIn, pc, blocking, closed, update_requested,
                 keyboard_context, timerfd, keymods, quit_requested,
                 quit_ordered, rx, batch, revents, comp, calls>>
  /\ UNCHANGED <<shell, reader, locks, hist, window, startup, threads, seat,
                 registry>>

AxisInit ==
  /\ LoopInit /\ WindowInit(FALSE) /\ StartupDone /\ sends = Messages
  /\ axisIn \in Axes \X RawValues
  /\ axisDone = FALSE
  /\ caps = {"pointer", "keyboard"}
  /\ pointers = 1
  /\ keyboards = 1
  /\ global = <<"", 0>>
  /\ bindVersion = 0

AxisNext == PointerAxisStep

AxisSpec == AxisInit /\ [][AxisNext]_vars

-----------------------------------------------------------------------------
\* The drain on a queue that holds events of every variant

MaxEvents == 2    \* events in the queue when the drain begins

EventVariants ==
  {KeyboardLeave, KeyboardKey(30, "Pressed"), KeyboardKey(30, "Released"),
   KeyboardKey(30, "Repeat"), KeyboardKey(42, "Pressed"), PointerMotion,
   PointerButton(TRUE), PointerButton(FALSE),
   PointerAxis(F32(0, 1), F32(1, 1)), FilesDropped}

Queues == UNION {[1 .. n -> EventVariants] : n \in 1 .. MaxEvents}

DrainStart ==
  /\ WindowInit(FALSE) /\ StartupDone /\ PointerIdle
  /\ pc = "drain"
  /\ blocking = TRUE
  /\ closed = FALSE
  /\ update_requested = FALSE
  /\ keyboard_context = [repeat_info |-> RepeatInfoDefault,
                         repeated_key |-> None, enter_serial |-> 1]
  /\ timerfd = timerfd_settime(0, 0)
  /\ EVENTS \in Queues
  /\ keymods = NoMods
  /\ quit_requested = FALSE
  /\ quit_ordered = FALSE
  /\ rx = <<>>
  /\ batch = 0
  /\ revents = [wl |-> FALSE, timer |-> FALSE]
  /\ comp = [focused |-> TRUE, held |-> {}]
  /\ calls = <<>>
  /\ pushLog = EVENTS
  /\ delivLog = <<>>
  /\ upSeen = {}
  /\ repeatBlocked = FALSE
  /\ leaveDrained = FALSE
  /\ pressedAtZero = NotZero
  /\ lastDown = None
  /\ asked = FALSE
  /\ redrawDue = FALSE
  /\ outbound = <<>>
  /\ sentBlocked = FALSE
  /\ read_intent = 0
  /\ displayOps = <<>>
  /\ lockOps = <<>>
  /\ unread = FALSE
  /\ pingLog = <<>>

DrainInit == DrainStart /\ sends = Messages

DrainNext == DrainEvent

DrainSpec == DrainInit /\ [][DrainNext]_vars

-----------------------------------------------------------------------------
\* The loop from a drain of events of every variant, with configures

LockMessages == {Msg("enter", 1, 0), Msg("key", 30, 1), Msg("close", 0, 0)}

LockInit == DrainStart /\ sends = LockMessages

\* A toplevel configure is dispatched with the other messages of a read
\* (wl_display_dispatch_pending, lines 87 and 93); one sized configure a run.
LockConfigure == pc = "dispatch" /\ configured = <<0, 0>> /\ Configure

LockNext == Next \/ LockConfigure

LockSpec == LockInit /\ [][LockNext]_vars

-----------------------------------------------------------------------------
\* The loop while the compositor writes to the connection

\* the compositor writes messages; the connection stays readable until
\* wl_display_read_events, of the loop or of a library, takes them
Arrive ==
  /\ pc # "exited"
  /\ ~unread
  /\ unread' = TRUE
  /\ UNCHANGED <<sends, outbound>>
  /\ UNCHANGED <<pc, blocking, closed, update_requested, keyboard_context,
                 timerfd, EVENTS, keymods, quit_requested, quit_ordered, rx,
                 batch, revents, comp, calls>>
  /\ UNCHANGED <<reader, locks, hist, aux>>

\* the compositor gives the focus, key A is pressed, the window is closed
SocketMessages ==
  {Msg("enter", 1, 0), Msg("key", 30, 1), Msg("close", 0, 0)}

SocketInit ==
  /\ LoopInit /\ WindowInit(FALSE) /\ StartupDone /\ PointerIdle
  /\ sends = SocketMessages

SocketNext == Next \/ Arrive

\* the thread of run() keeps running: a step of the loop that can be taken
\* is taken
SocketSpec == SocketInit /\ [][SocketNext]_vars /\ WF_vars(Next)

----------------------------------------------------------------------------
\* Properties

IsRepeatCall(c) == c.fn = "key_down_event" /\ c.repeat
IsRepeatEvent(ev) == ev.type = "KeyboardKey" /\ ev.state = "Repeat"

\* C1: once key_up_event for a key has been delivered, no key_down_event
\* with repeat = true for that key is delivered before a non-repeat
\* key_down_event for it.
C1_NoRepeatAfterKeyUp ==
  \A i \in DOMAIN calls : IsRepeatCall(calls[i]) => calls[i].key \notin upSeen

\* C2: the events pushed in one wake are handed to the handler in the order
\* of their push: what was delivered, followed by what is still queued, is
\* what was pushed.
C2_FifoDelivery == delivLog \o EVENTS = pushLog

\* two events of different types, the first delivered, the second waiting
C2_Witness ==
  /\ pc = "drain"
  /\ delivLog # <<>>
  /\ EVENTS # <<>>
  /\ delivLog[Len(delivLog)].type # Head(EVENTS).type

\* C3: after the drain step, up to the next loop-condition check and at the
\* exit of the loop, the queue of pending events is empty.
C3_QueueEmptyAfterDrain ==
  pc \in {"quit", "frame", "cond", "exited"} => EVENTS = <<>>

\* the drain has just handed its last event to the handler
C3_Witness == pc = "quit" /\ calls # <<>> /\ EVENTS = <<>>

\* C4: from the dispatch of a focus-leave until a key press dispatched after
\* it has been processed, no Repeat event is queued and none is delivered.
C4_NoRepeatAfterLeave ==
  repeatBlocked =>
    /\ \A i \in DOMAIN EVENTS : ~IsRepeatEvent(EVENTS[i])
    /\ \A i \in DOMAIN calls : ~IsRepeatCall(calls[i])

KeyCallFns == {"key_down_event", "key_up_event", "char_event"}
ModFlags == {"shift", "ctrl", "alt", "logo"}

\* the modifier flag a key stands for, "none" for any other key
ModifierOf(key) ==
  CASE Keycode(key) \in {"LeftShift", "RightShift"} -> "shift"
    [] Keycode(key) \in {"LeftControl", "RightControl"} -> "ctrl"
    [] Keycode(key) \in {"LeftAlt", "RightAlt"} -> "alt"
    [] Keycode(key) \in {"LeftSuper", "RightSuper"} -> "logo"
    [] OTHER -> "none"

\* C5, as claimed: the first key event handled after a drained KeyboardLeave
\* is given a modifier snapshot with all four flags false.
C5_AllFlagsFalse ==
  [][leaveDrained =>
       \A i \in DOMAIN calls' :
         calls'[i].fn \in KeyCallFns => calls'[i].mods = NoMods]_vars

\* C5, amended: in that snapshot every flag is false but the flag of the
\* modifier key that this very event presses.
C5_OnlyOwnFlag ==
  [][leaveDrained =>
       \A i \in DOMAIN calls' :
         calls'[i].fn \in KeyCallFns =>
           \A f \in ModFlags :
             calls'[i].mods[f] =
               (ModifierOf(calls'[i].key) = f /\ calls'[i].fn # "key_up_event")]_vars

\* KeyboardLeave was drained while Shift was down and never released; the
\* next key event, a press of A, is about to be handled
C5_Witness ==
  /\ leaveDrained
  /\ pc = "drain"
  /\ EVENTS = <<KeyboardKey(30, "Pressed")>>
  /\ 42 \in comp.held
  /\ 42 \notin upSeen
  /\ keymods = NoMods

\* C6: after a repeat-info with rate 0 the policy is NoRepeat, and no Repeat
\* event is queued for a key pressed since then.
C6_NoRepeatAtZeroRate ==
  pressedAtZero # NotZero =>
    /\ keyboard_context.repeat_info = NoRepeat
    /\ \A i \in DOMAIN EVENTS :
         IsRepeatEvent(EVENTS[i]) => EVENTS[i].key \notin pressedAtZero

\* C7: when the release handler of key k returns, and the last key_down was
\* for k, no key is tracked and the timer is disarmed.
C7_IdleAfterKeyUp ==
  [][\A k \in Keys :
       (/\ pc = "dispatch"
        /\ lastDown = k
        /\ EVENTS' = Append(EVENTS, KeyboardKey(k, "Released")))
       => (keyboard_context'.repeated_key = None /\ ~timerfd'.armed)]_vars

\* C8: a timer step that reads the expiration counter appends one Repeat
\* event of the tracked key per expiration read, and none when no key is
\* tracked.
C8_RepeatsMatchExpirations ==
  [][(pc = "timer" /\ revents.timer /\ pc' = "drain") =>
       LET key == keyboard_context.repeated_key
           n == IF key = None THEN 0 ELSE timerfd.ticks
       IN /\ Len(EVENTS') = Len(EVENTS) + n
          /\ SubSeq(EVENTS', 1, Len(EVENTS)) = EVENTS
          /\ \A i \in (Len(EVENTS) + 1)..Len(EVENTS') :
               EVENTS'[i] = KeyboardKey(key, "Repeat")
          /\ timerfd'.ticks = 0]_vars

\* the timer step has just queued two coalesced repeats of A
C8_Witness ==
  /\ pc = "drain"
  /\ delivLog = <<>>
  /\ Len(EVENTS) >= 2
  /\ EVENTS[Len(EVENTS)] = KeyboardKey(30, "Repeat")
  /\ EVENTS[Len(EVENTS) - 1] = KeyboardKey(30, "Repeat")

\* the read of the timer blocks and no expiration will end it
TimerReadBlocked ==
  pc = "timer" /\ revents.timer /\ timerfd.ticks = 0 /\ ~timerfd.armed

\* C9: once closed or quit_ordered is set the loop finishes the iteration
\* and exits at the loop condition without entering the wait again, and it
\* exits only when one of the two is set.
C9_ExitsOnceFlagSet ==
  /\ pc = "exited" => (closed \/ quit_ordered)
  /\ (closed \/ quit_ordered) =>
       /\ pc \notin {"requests", "block", "poll"}
       /\ ~TimerReadBlocked

\* C10: quit_requested_event is called at most once per iteration, only with
\* quit_requested set and quit_ordered clear; afterwards quit_ordered is set
\* exactly when quit_requested still is; quit_ordered stays set.
C10_QuitAskedOnce ==
  [][/\ quit_ordered => quit_ordered'
     /\ \A i \in DOMAIN calls' :
          calls'[i].fn = "quit_requested_event" =>
            /\ quit_requested /\ ~quit_ordered /\ ~asked
            /\ quit_ordered' = quit_requested'
            /\ Len(calls') = 1]_vars

\* the handler was asked and vetoed
C10_Witness ==
  /\ pc = "frame"
  /\ calls # <<>>
  /\ calls[1].fn = "quit_requested_event"
  /\ ~quit_requested
  /\ ~quit_ordered

IsFrameCall(c) == c.fn \in {"update", "draw"}

\* C11: a redraw the application schedules inside update/draw (or the one
\* the loop starts with) is served by the next iteration: the loop does not
\* enter the wait while it is due, and the frame step of that iteration
\* calls update/draw.  In blocking mode update/draw are called only for such
\* a request, and update_requested is already false when update is entered.
C11_RedrawNotLost ==
  [][/\ redrawDue => pc' \notin {"poll", "timer"}
     /\ (pc = "frame" /\ redrawDue) =>
          \E i \in DOMAIN calls' : IsFrameCall(calls'[i])
     /\ (blocking /\ \E i \in DOMAIN calls' : IsFrameCall(calls'[i])) =>
          redrawDue
     /\ (\E i \in DOMAIN calls' : IsFrameCall(calls'[i])) =>
          ~update_requested']_vars

\* in blocking mode update/draw has just scheduled a redraw: the request is
\* in the channel and the next iteration is about to drain it
C11_Witness ==
  /\ blocking
  /\ pc = "requests"
  /\ redrawDue
  /\ rx = <<"ScheduleUpdate">>
  /\ ~update_requested

\* block_on_new_event has been called and has not reached poll yet
BeforePoll == pc = "block" \/ (pc = "dispatch" /\ ~revents.wl)

RequiredHandles == {"compositor", "xdg_wm_base"}
OptionalHandles == {"decoration_manager", "viewporter", "data_device_manager"}
OptionalInterfaces ==
  {"zxdg_decoration_manager_v1", "wp_viewporter", "wl_data_device_manager"}

\* C14: when the registry dispatch has left compositor or xdg_wm_base null,
\* run() fails and returns: it takes no further startup step and gives no
\* null handle to a request or a listener registration.
C14_FailsWithoutRequired ==
  (step # "registry" /\ ~(RequiredHandles \subseteq bound)) =>
    /\ step \in {"wm_base_listener", "failed"}
    /\ nullUsed = {}

\* C15: when the compositor announces none of the optional globals (and
\* does announce compositor, shell and seat), the startup does not panic
\* and gives no null optional handle to a request.
C15_DegradedModeStarts ==
  (/\ advertised \cap OptionalInterfaces = {}
   /\ {"wl_compositor", "xdg_wm_base", "wl_seat"} \subseteq advertised) =>
    /\ nullUsed \cap OptionalHandles = {}
    /\ step # "panicked"

\* C16: the dispatch of a ping queues exactly one pong with its serial,
\* no other step queues a pong, and no handler call starts while a pong is
\* queued and not yet written to the connection.
IsPong(request) == request.request = "pong"

C16_PongBeforeHandler ==
  [][/\ pingLog' # pingLog =>
          outbound' = Append(outbound, Pong(pingLog'[Len(pingLog')]))
     /\ pingLog' = pingLog =>
          SelectSeq(outbound', IsPong) \in {<<>>, SelectSeq(outbound, IsPong)}
     /\ calls' # <<>> => SelectSeq(outbound, IsPong) = <<>>]_vars

\* C17: after pointer_handle_axis ran on (axis, v): for v # 0 the queue
\* holds exactly (0, -sign(v)) on axis 0 and (sign(v), 0) on axis 1, on any
\* other axis it holds nothing, and for v = 0 no event with a NaN component
\* is in the queue.
Sign(v) == IF v < 0 THEN -1 ELSE IF v > 0 THEN 1 ELSE 0

C17_AxisNormalised ==
  axisDone =>
    LET axis == axisIn[1]
        v    == axisIn[2]
    IN  /\ (v # 0 /\ axis = 0) =>
             EVENTS = <<PointerAxis(F32(0, 1), F32(-Sign(v), 1))>>
        /\ (v # 0 /\ axis = 1) =>
             EVENTS = <<PointerAxis(F32(Sign(v), 1), F32(0, 1))>>
        /\ axis \notin {0, 1} => EVENTS = <<>>
        /\ v = 0 => \A i \in DOMAIN EVENTS :
                      EVENTS[i].x.class # "nan" /\ EVENTS[i].y.class # "nan"

\* C18: a request sent on the channel does not wake the loop: the wait ends
\* only when the connection or the timer is ready, and a step that adds a
\* request outside the frame step changes nothing else of the loop. The
\* request drain at the top of an iteration consumes every pending request
\* once with its effect (ScheduleUpdate sets the flag, SetFullscreen queues
\* one request, any other kind does nothing) and changes nothing else; no
\* other step removes a request from the channel.
IsDrain == pc = "requests" /\ pc' = "block"

IsPrefix(a, b) == Len(a) <= Len(b) /\ SubSeq(b, 1, Len(a)) = a

FullscreenRequests(ch) ==
  [i \in 1 .. Len(SelectSeq(ch, LAMBDA r : r = "SetFullscreen")) |->
     [request |-> "set_fullscreen", serial |-> 0]]

C19_TimerReadReturns ==
  (pc = "timer" /\ revents.timer) => timerfd.ticks > 0

\* C20: the tracked repeat key is set only while the repeat timer is
\* armed, whatever repeat policy the compositor advertised.
C20_TrackedOnlyWhileArmed ==
  keyboard_context.repeated_key # None => timerfd.armed

\* C21: whenever the thread is in the wait (poll), no request queued for
\* the compositor is still unwritten.
C21_FlushedBeforeWait ==
  pc = "poll" => outbound = <<>>

\* C22: a call of block_on_new_event registers read intent exactly once, in
\* the step that ends the prepare_read loop (nothing is left to dispatch)
\* and with no intent held; it releases it exactly once: by read_events
\* when the display woke poll, by cancel_read when poll is skipped or
\* returned without the display readable.  Intent is held in poll only.
OpCount(ops, op) == Len(SelectSeq(ops, LAMBDA o : o = op))

EndsPrepareLoop ==
  /\ pc = "block" \/ (pc = "dispatch" /\ ~revents.wl)
  /\ pc' \in {"poll", "drain"}

ListenerFields == {"egl_window", "surface", "xkb_state", "data_device"}

C23_ListenerFieldsPopulated ==
  nullUsed \cap ListenerFields = {}

\* C24: a notification adds a pointer (keyboard) object with a listener
\* only if its bit is set and was not set in the previous notification; at
\* most one of each kind exists, and one input message adds one event.
C24_OneObjectPerCapability ==
  [][/\ pointers' > pointers => ("pointer" \in caps' /\ "pointer" \notin caps)
     /\ keyboards' > keyboards =>
          ("keyboard" \in caps' /\ "keyboard" \notin caps)
     /\ pointers' <= 1 /\ keyboards' <= 1
     /\ Len(EVENTS') <= Len(EVENTS) + 1]_vars

\* C25 as stated: the version a recognized global is bound at does not
\* depend on the version it is advertised at.
C25_VersionIndependent ==
  step # "registry" =>
    \A version \in Versions : BindVersion(global[1], version) = bindVersion

\* C25: a recognized global is bound at version 1, wl_data_device_manager
\* at version 3 and wl_seat at the smaller of 4 and the advertised version,
\* and its handle is stored; an unrecognized global binds nothing and
\* leaves every handle as it was.
FieldOf ==
  [wl_compositor |-> "compositor", wl_subcompositor |-> "subcompositor",
   xdg_wm_base |-> "xdg_wm_base",
   zxdg_decoration_manager |-> "decoration_manager",
   zxdg_decoration_manager_v1 |-> "decoration_manager",
   wp_viewporter |-> "viewporter", wl_shm |-> "shm", wl_seat |-> "seat",
   wl_data_device_manager |-> "data_device_manager"]

C25_BindVersions ==
  step # "registry" =>
    IF global[1] \in DOMAIN FieldOf
    THEN /\ bound = {FieldOf[global[1]]}
         /\ bindVersion =
              CASE global[1] = "wl_seat" ->
                     IF global[2] < 4 THEN global[2] ELSE 4
                [] global[1] = "wl_data_device_manager" -> 3
                [] OTHER -> 1
    ELSE bound = {} /\ bindVersion = 0

C25_Witness ==
  step # "registry" /\ global = <<"wl_seat", 2>> /\ bindVersion = 2
  /\ bound = {"seat"}

\* C26 as stated: every event taken from the queue by the drain makes
\* exactly one handler call.
C26_OneCallPerEvent ==
  [][(pc = "drain" /\ EVENTS # <<>>) => Len(calls') = 1]_vars

\* C26: every event taken from the queue makes the handler calls of its
\* variant: none for a focus loss, key_down_event and then char_event if
\* the key has a character for a press or a repeat, and exactly one call
\* for a release, a motion, a button, a scroll and a file drop.
ExpectedCalls(ev) ==
  CASE ev.type = "KeyboardLeave" -> <<>>
    [] ev.type = "KeyboardKey" /\ ev.state = "Released" -> <<"key_up_event">>
    [] ev.type = "KeyboardKey" /\ ev.state # "Released" ->
         IF ev.key = 42 THEN <<"key_down_event">>
         ELSE <<"key_down_event", "char_event">>
    [] ev.type = "PointerMotion" -> <<"mouse_motion_event">>
    [] ev.type = "PointerButton" ->
         IF ev.state = "Pressed" THEN <<"mouse_button_down_event">>
         ELSE <<"mouse_button_up_event">>
    [] ev.type = "PointerAxis" -> <<"mouse_wheel_event">>
    [] ev.type = "FilesDropped" -> <<"files_dropped_event">>

C26_CallsPerVariant ==
  [][(pc = "drain" /\ EVENTS # <<>>) =>
       /\ EVENTS' = Tail(EVENTS)
       /\ [i \in DOMAIN calls' |-> calls'[i].fn] = ExpectedCalls(Head(EVENTS))]_vars

C26_Witness ==
  /\ Len(calls) = 2
  /\ calls[2].fn = "char_event"
  /\ EVENTS = <<FilesDropped>>

\* C27: every toplevel configure with a nonzero size that is dispatched,
\* at startup too, makes a resize_event call with that size.
C27_ConfigureForwarded ==
  [][(configured' # configured /\ configured'[1] # 0 /\ configured'[2] # 0)
       => calls' = <<ResizeCall(configured'[1], configured'[2])>>]_vars

\* C28: in the lock, unlock and handler calls of every step, taken in
\* order, no handler call is made while the lock is held, the lock is never
\* taken while held, and it is free when the step ends.
Held(ops, n) ==
  OpCount(SubSeq(ops, 1, n), "lock") - OpCount(SubSeq(ops, 1, n), "unlock")

C28_NoHandlerUnderLock ==
  /\ \A i \in DOMAIN lockOps :
       /\ lockOps[i] \in {"handler", "lock"} => Held(lockOps, i - 1) = 0
       /\ lockOps[i] = "unlock" => Held(lockOps, i - 1) = 1
  /\ Held(lockOps, Len(lockOps)) = 0

C28_Witness ==
  lockOps = <<"lock", "unlock", "handler", "lock", "unlock">>

\* C29: messages that have arrived on the connection are eventually read by
\* the loop even when update_requested is true at every wait step (every
\* entry of block_on_new_event): the loop does not run forever without
\* reading the connection.
C29_ArrivedIsRead ==
  [](pc = "block" => update_requested)
    => (unread ~> (~unread \/ pc = "exited"))

\* C30: in non-blocking (eager redraw) mode the loop never sleeps in the
\* wait step: it is never inside poll with the connection holding nothing
\* to read and the timer not expired, so update and draw run in every
\* iteration without a message, a timer expiry or a redraw request.
C30_EagerNeverSleeps ==
  ~blocking => ~(pc = "poll" /\ ~unread /\ timerfd.ticks = 0)

\* C31: in every reachable state the repeat timer is armed only if a key is
\* tracked: whatever clears repeated_key (key_up of the tracked key, the
\* focus-leave, key_down under NoRepeat) also disarms the timer, and the
\* timer holds no expiration that could wake the loop with no key tracked.
C31_ArmedOnlyWhileTracked ==
  (timerfd.armed \/ timerfd.ticks > 0) => keyboard_context.repeated_key # None


====
